---- MODULE Spec2Model ----
(***************************************************************************)
(* gopro2gpx: the GPS point builder (BuildGPSPoints) and its driver        *)
(* (main_core) of gopro2gpx/gopro2gpx.py.                                  *)
(*                                                                         *)
(* Spec      steps BuildGPSPoints one loop iteration at a time (one record *)
(*           of the outer loop, one sample of the GPS5 inner loop), the    *)
(*           records being drawn as the loop fetches them.                 *)
(* SpecMain  steps main_core: the file loop that parses and concatenates,  *)
(*           the type dispatch, the BuildGPSPoints call and the outputs.   *)
(*                                                                         *)
(* Numbers: float(x) / float(y) is the exact rational x/y, kept in lowest  *)
(* terms as <<numerator, denominator>>.  Timestamps are microseconds.      *)
(*                                                                         *)
(* The variable seen is history: what the pass of Spec has consumed (the   *)
(* last SCAL and TSMP records, the samples gone through, the container the *)
(* SCAL record was in).  No action reads it to decide what the program     *)
(* does.                                                                   *)
(***************************************************************************)
EXTENDS Integers, Sequences, FiniteSets, TLC

\* ------------------------------------------------------------------ bounds
MaxRecords == 4     \* records one pass of Spec fetches
MaxFiles == 3       \* input files of one run of SpecMain

\* ------------------------------------------------------- program constants
SampleRate == 18        \* t_delta = 1 / 18.0
MicrosPerSecond == 1000000

None == -1              \* Python's None, for start_time and GPSU

\* ------------------------------------------------------------ input values
ScaleVectors ==
    { <<10>>, <<10, 10, 10>>, <<10, 10, 10, 10, 10>>, <<2, 5, 10, 20, 1>>,
      <<0, 10, 10, 10, 10>> }
DeviceNames == {"Hero", "Karma"}
Anchors == {60000000, 120000000}
FixCodes == {0, 3}
TSMPValues == {0, 3, 5}
EmptyItem == <<0, 0, 0, 40, 50>>          \* lat = lon = alt = 0
FullItem == <<100, 200, 300, 40, 50>>
PartItem == <<0, 200, 0, 40, 0>>           \* some coordinates zero, not all
GPS5Data ==
    { <<>>, <<EmptyItem>>, <<FullItem>>, <<PartItem>>, <<EmptyItem, FullItem>>,
      <<FullItem, EmptyItem, PartItem>>, <<FullItem, FullItem, FullItem>> }
SYSTValues == { <<0, 0>>, <<7, 0>>, <<0, 9>>, <<7, 9>> }
GPRIValues == { EmptyItem, FullItem }
OtherTags == {"ACCL"}

Record(tag, value) == [fourCC |-> tag, data |-> value]

\* The data of a SCAL record with one value is that number, not a tuple
\* ("scaling factor expected to be 32767"): the number s is written as the
\* function 0 :> s, which no tuple is.
Scalar(s) == [i \in {0} |-> s]
IsScalar(x) == 0 \in DOMAIN x
ScaleFactors == { Scalar(10) }

\* field positions of a GPS5 sample / GPRI fix
Lat(item) == item[1]
Lon(item) == item[2]
Alt(item) == item[3]
Speed(item) == item[4]

\* ----------------------------------------------------------- arithmetic
Min(a, b) == IF a <= b THEN a ELSE b

RECURSIVE GCD(_, _)
GCD(a, b) == IF b = 0 THEN a ELSE GCD(b, a % b)

\* float(x) / float(y) for x >= 0, y > 0
Div(x, y) == LET g == GCD(x, y) IN <<x \div g, y \div g>>

IsZero(q) == q[1] = 0

\* datetime.timedelta(seconds = sample_count * t_delta), rounded to the
\* nearest microsecond as timedelta does
TimeDelta(sample_count) ==
    (2 * sample_count * MicrosPerSecond + SampleRate) \div (2 * SampleRate)

\* [float(x) / float(y) for x, y in zip(values, list(SCAL))]
ZipDivWrongAxis(values, SCAL) ==
    [i \in 1..Min(Len(values), Len(SCAL)) |-> Div(values[i], SCAL[1])]

ZipDiv(values, SCAL) ==
    [i \in 1..Min(Len(values), Len(SCAL)) |-> Div(values[i], SCAL[i])]

ZipDivRaises(values, SCAL) ==
    \E i \in 1..Min(Len(values), Len(SCAL)) : SCAL[i] = 0

\* list(SCAL) of a number: TypeError, not iterable
ListRaises(SCAL) == IsScalar(SCAL)

\* gpshelper.GPSPoint(lat, lon, alt, time, speed)
GPSPoint(lat, lon, alt, time, speed) ==
    [lat |-> lat, lon |-> lon, alt |-> alt, time |-> time, speed |-> speed]

\* --------------------------------------------- BuildGPSPoints, per record
\* the locals of BuildGPSPoints before the loop
InitState ==
    [ points |-> <<>>,
      start_time |-> None,
      SCAL |-> <<1, 1, 1>>,
      GPSU |-> None,
      SYST |-> << <<0, 1>>, <<0, 1>> >>,
      stats |-> [ok |-> 0, badfix |-> 0, badfixskip |-> 0, empty |-> 0],
      GPSFIX |-> 0,
      TSMP |-> 0,
      DVNM |-> "Unknown",
      sample_count |-> 0,
      err |-> "none" ]

Raise(s, e) == [s EXCEPT !.err = e]

OnSCALFirstOnly(s, rec) == IF s.SCAL = InitState.SCAL THEN [s EXCEPT !.SCAL = rec.data] ELSE s

OnSCAL(s, rec) == [s EXCEPT !.SCAL = rec.data]

OnDVNMResetsScale(s, rec) == [s EXCEPT !.DVNM = rec.data, !.SCAL = InitState.SCAL]

OnDVNM(s, rec) == [s EXCEPT !.DVNM = rec.data]

OnGPSUOverwrite(s, rec) == [s EXCEPT !.GPSU = rec.data, !.start_time = rec.data]

OnGPSU(s, rec) ==
    [s EXCEPT !.GPSU = rec.data,
              !.start_time = IF s.start_time = None THEN rec.data ELSE @]

\* (the notice printed when the value changes is output only)
OnGPSF(s, rec) == [s EXCEPT !.GPSFIX = rec.data]

OnTSMP(s, rec) ==
    [s EXCEPT !.TSMP = IF s.TSMP = 0 THEN rec.data ELSE rec.data - s.TSMP]

\* the statements before the inner loop of the GPS5 branch
EnterGPS5(s) == [s EXCEPT !.sample_count = 0]

\* the body of the inner loop of the GPS5 branch, after the two rejections
EmitGPS5Uncounted(s, item) ==
    IF ListRaises(s.SCAL) THEN Raise(s, "TypeError_list")
    ELSE IF ZipDivRaises(item, s.SCAL) THEN Raise(s, "ZeroDivisionError")
    ELSE LET retdata == ZipDiv(item, s.SCAL) IN
         IF Len(retdata) # Len(item) THEN Raise(s, "TypeError_make")
         ELSE IF s.GPSU = None THEN Raise(s, "TypeError_None")
         ELSE [s EXCEPT
                 !.points = Append(@, GPSPoint(Lat(retdata), Lon(retdata), Alt(retdata),
                                               s.GPSU + TimeDelta(s.sample_count),
                                               Speed(retdata))),
                 !.sample_count = @ + 1]

EmitGPS5(s, item) ==
    IF ListRaises(s.SCAL) THEN Raise(s, "TypeError_list")
    ELSE IF ZipDivRaises(item, s.SCAL) THEN Raise(s, "ZeroDivisionError")
    ELSE LET retdata == ZipDiv(item, s.SCAL) IN
         \* GPSData._make(retdata) wants one value per field
         IF Len(retdata) # Len(item) THEN Raise(s, "TypeError_make")
         \* GPSU + datetime.timedelta(...) with GPSU still None
         ELSE IF s.GPSU = None THEN Raise(s, "TypeError_None")
         ELSE [s EXCEPT
                 !.points = Append(@, GPSPoint(Lat(retdata), Lon(retdata), Alt(retdata),
                                               s.GPSU + TimeDelta(s.sample_count),
                                               Speed(retdata))),
                 !.stats.ok = @ + 1,
                 !.sample_count = @ + 1]

\* one iteration of the inner loop of the GPS5 branch
GPS5ItemFixFirst(s, item, skip) ==
    LET counted == IF s.GPSFIX = 0 THEN [s EXCEPT !.stats.badfix = @ + 1] ELSE s IN
    IF s.GPSFIX = 0 /\ skip THEN [counted EXCEPT !.stats.badfixskip = @ + 1]
    ELSE IF Lon(item) = 0 /\ Lat(item) = 0 /\ Alt(item) = 0
         THEN [counted EXCEPT !.stats.empty = @ + 1]
         ELSE EmitGPS5(counted, item)

GPS5ItemKeepsBadFix(s, item, skip) ==
    IF Lon(item) = 0 /\ Lat(item) = 0 /\ Alt(item) = 0
    THEN [s EXCEPT !.stats.empty = @ + 1]
    ELSE LET counted == IF s.GPSFIX = 0 THEN [s EXCEPT !.stats.badfix = @ + 1] ELSE s IN
         EmitGPS5(counted, item)

GPS5Item(s, item, skip) ==
    IF Lon(item) = 0 /\ Lat(item) = 0 /\ Alt(item) = 0
    THEN [s EXCEPT !.stats.empty = @ + 1]
    ELSE LET counted == IF s.GPSFIX = 0 THEN [s EXCEPT !.stats.badfix = @ + 1] ELSE s IN
         IF s.GPSFIX = 0 /\ skip THEN [counted EXCEPT !.stats.badfixskip = @ + 1]
         ELSE EmitGPS5(counted, item)

RECURSIVE GPS5Loop(_, _, _, _)
GPS5Loop(s, items, i, skip) ==
    IF i > Len(items) \/ s.err # "none" THEN s
    ELSE GPS5Loop(GPS5Item(s, items[i], skip), items, i + 1, skip)

OnGPS5(s, rec, skip) == GPS5Loop(EnterGPS5(s), rec.data, 1, skip)

OnSYSTEither(s, rec) ==
    IF ListRaises(s.SCAL) THEN Raise(s, "TypeError_list")
    ELSE IF ZipDivRaises(rec.data, s.SCAL) THEN Raise(s, "ZeroDivisionError")
    ELSE LET data == ZipDiv(rec.data, s.SCAL) IN
         IF Len(data) = 0 THEN Raise(s, "IndexError")
         ELSE IF Len(data) < 2 THEN Raise(s, "IndexError")
         ELSE IF IsZero(data[1]) /\ IsZero(data[2]) THEN s
         ELSE [s EXCEPT !.SYST = data]

OnSYST(s, rec) ==
    IF ListRaises(s.SCAL) THEN Raise(s, "TypeError_list")
    ELSE IF ZipDivRaises(rec.data, s.SCAL) THEN Raise(s, "ZeroDivisionError")
    ELSE LET data == ZipDiv(rec.data, s.SCAL) IN
         IF Len(data) = 0 THEN Raise(s, "IndexError")          \* data[0]
         ELSE IF IsZero(data[1]) THEN s
         ELSE IF Len(data) < 2 THEN Raise(s, "IndexError")     \* data[1]
         ELSE IF IsZero(data[2]) THEN s
         ELSE [s EXCEPT !.SYST = data]

OnGPRICountsDropped(s, rec, skip) ==
    IF Lon(rec.data) = 0 /\ Lat(rec.data) = 0 /\ Alt(rec.data) = 0
    THEN [s EXCEPT !.stats.empty = @ + 1]
    ELSE LET counted == IF s.GPSFIX = 0 THEN [s EXCEPT !.stats.badfix = @ + 1] ELSE s IN
         IF s.GPSFIX = 0 /\ skip THEN [counted EXCEPT !.stats.badfixskip = @ + 1]
         ELSE IF ListRaises(s.SCAL) THEN Raise(counted, "TypeError_list")
         ELSE IF ZipDivRaises(rec.data, s.SCAL) THEN Raise(counted, "ZeroDivisionError")
         ELSE IF Len(ZipDiv(rec.data, s.SCAL)) # Len(rec.data)
              THEN Raise(counted, "TypeError_make")
         ELSE IF ~IsZero(s.SYST[1]) /\ ~IsZero(s.SYST[2])
              THEN Raise(counted, "AttributeError")
              ELSE [counted EXCEPT !.stats.empty = @ + 1]

OnGPRI(s, rec, skip) ==
    IF Lon(rec.data) = 0 /\ Lat(rec.data) = 0 /\ Alt(rec.data) = 0
    THEN [s EXCEPT !.stats.empty = @ + 1]
    ELSE LET counted == IF s.GPSFIX = 0 THEN [s EXCEPT !.stats.badfix = @ + 1] ELSE s IN
         IF s.GPSFIX = 0 /\ skip THEN [counted EXCEPT !.stats.badfixskip = @ + 1]
         ELSE IF ListRaises(s.SCAL) THEN Raise(counted, "TypeError_list")
         ELSE IF ZipDivRaises(rec.data, s.SCAL) THEN Raise(counted, "ZeroDivisionError")
         \* KARMAGPSData._make(data) wants one value per field
         ELSE IF Len(ZipDiv(rec.data, s.SCAL)) # Len(rec.data)
              THEN Raise(counted, "TypeError_make")
         ELSE IF ~IsZero(s.SYST[1]) /\ ~IsZero(s.SYST[2])
              \* datetime is the module (import datetime): it has no fromtimestamp
              THEN Raise(counted, "AttributeError")
              ELSE counted

\* one iteration of the outer loop
OnRecord(s, rec, skip) ==
    CASE rec.fourCC = "SCAL" -> OnSCAL(s, rec)
      [] rec.fourCC = "DVNM" -> OnDVNM(s, rec)
      [] rec.fourCC = "GPSU" -> OnGPSU(s, rec)
      [] rec.fourCC = "GPSF" -> OnGPSF(s, rec)
      [] rec.fourCC = "TSMP" -> OnTSMP(s, rec)
      [] rec.fourCC = "GPS5" -> OnGPS5(s, rec, skip)
      [] rec.fourCC = "SYST" -> OnSYST(s, rec)
      [] rec.fourCC = "GPRI" -> OnGPRI(s, rec, skip)
      [] OTHER -> s

RECURSIVE Loop(_, _, _, _)
Loop(s, records, i, skip) ==
    IF i > Len(records) \/ s.err # "none" THEN s
    ELSE Loop(OnRecord(s, records[i], skip), records, i + 1, skip)

\* the stats block printed before the return
PrintStats(s) ==
    [ Device |-> s.DVNM, Ok |-> s.stats.ok, Bad |-> s.stats.badfix,
      Skipped |-> s.stats.badfixskip, Empty |-> s.stats.empty,
      Total |-> s.stats.ok + s.stats.badfix + s.stats.badfixskip + s.stats.empty ]

\* return (points, start_time, DVNM)
ReturnValueLastAnchor(s) ==
    [points |-> s.points, start_time |-> s.GPSU, device_name |-> s.DVNM]

ReturnValue(s) ==
    [points |-> s.points, start_time |-> s.start_time, device_name |-> s.DVNM]

\* the locals of BuildGPSPoints when the call ends, returning or raising
BuildGPSPoints(records, skip) == Loop(InitState, records, 1, skip)

\* ---------------------------------------------- the single-channel modes
\* GetGRAVData / GetCORIData / GetACCLData: SCAL starts as the number 1.0 and
\* is replaced by the data of every SCAL record; every value of every tuple of
\* a record of the tag is divided by float(SCAL), which raises TypeError when
\* SCAL is a tuple.  The result: the rows, or the error.
ScaledRowsUnscaled(items, SCAL) ==
    [k \in 1..Len(items) |-> [j \in 1..Len(items[k]) |-> Div(items[k][j], 1)]]

ScaledRows(items, SCAL) ==
    [k \in 1..Len(items) |-> [j \in 1..Len(items[k]) |-> Div(items[k][j], SCAL[0])]]

RECURSIVE GetData(_, _, _, _, _)
GetData(records, tag, i, SCAL, rows) ==
    IF i > Len(records) THEN [rows |-> rows, err |-> "none"]
    ELSE LET rec == records[i] IN
         IF rec.fourCC = "SCAL" THEN GetData(records, tag, i + 1, rec.data, rows)
         ELSE IF rec.fourCC = tag /\ Len(rec.data) > 0
              THEN IF ~IsScalar(SCAL) THEN [rows |-> rows, err |-> "TypeError_float"]
                   ELSE IF SCAL[0] = 0 THEN [rows |-> rows, err |-> "ZeroDivisionError"]
                   ELSE GetData(records, tag, i + 1, SCAL, rows \o ScaledRows(rec.data, SCAL))
              ELSE GetData(records, tag, i + 1, SCAL, rows)

\* ------------------------------------------------------------ input files
\* What gpmf.parseStream returns for the captures a run may be given.
Captures ==
    << \* a capture with a lock
       << Record("DVNM", "Hero"), Record("SCAL", <<2, 5, 10, 20, 1>>),
          Record("GPSU", 60000000), Record("GPSF", 3),
          Record("GPS5", <<FullItem, EmptyItem, PartItem>>) >>,
       \* a capture without a lock, from another device
       << Record("DVNM", "Karma"), Record("GPSF", 0),
          Record("SCAL", <<2, 5, 10, 20, 1>>), Record("GPSU", 120000000),
          Record("GPS5", <<FullItem>>), Record("GPSU", 60000000) >>,
       \* sensor channels only
       << Record("SCAL", <<10, 10, 10>>), Record("TSMP", 3), Record("SYST", <<7, 9>>),
          Record("ACCL", << <<1, 2, 3>> >>), Record("GPSU", 120000000) >>,
       \* a legacy capture: system clock only
       << Record("SCAL", <<10>>), Record("SYST", <<7, 9>>) >>,
       \* a legacy capture: system clock and fix
       << Record("SYST", <<7, 9>>), Record("GPSF", 3),
          Record("SCAL", <<2, 5, 10, 20, 1>>), Record("GPRI", FullItem) >>,
       \* positions before any time anchor
       << Record("SCAL", <<2, 5, 10, 20, 1>>), Record("GPS5", <<FullItem>>) >>,
       \* unscaled sensor channel
       << Record("ACCL", << <<1, 2, 3>> >>), Record("DVNM", "Hero") >>,
       \* sensor channel with its scale factor
       << Record("SCAL", Scalar(2)), Record("ACCL", << <<2, 4, 6>>, <<1, 0, 3>> >>),
          Record("GRAV", << <<4, 8, 10>> >>) >>,
       \* no records
       << >> >>

Corrupt == 0    \* a file on which gpmf.parseStream raises

FileChoices == 0..Len(Captures)

FourCCTypes == {"None", "GRAV", "CORI", "ACCL", "GYRO"}

\* ------------------------------------------------------------------ state
VARIABLES
    skip,       \* args.skip, the skip argument of BuildGPSPoints
    st,         \* BuildGPSPoints: the locals
    d,          \* BuildGPSPoints: the record of the current iteration
    sub,        \* BuildGPSPoints: position of the inner loop in d.data
    n,          \* BuildGPSPoints: records fetched so far
    pc,         \* BuildGPSPoints: "loop", "gps5", "returned", "error"
    ret,        \* what BuildGPSPoints returned (<<>> before it returns)
    stdout,     \* the stats block printed (<<>> before it is)
    files,      \* main_core: args.files, each a choice of FileChoices
    fourcc_type,\* main_core: args.type
    num,        \* main_core: files parsed so far
    data,       \* main_core: the records parsed so far
    mpc,        \* main_core: "files", "built", "exit0", "done", "raised"
    raised,     \* main_core: the error that ended the run ("none" if none)
    written,    \* main_core: the output files written
    csv,        \* main_core: the rows handed to write_csv (<<>> before it is called)
    seen        \* history of the pass of Spec, not read by the program:
                \*   scal     the data of the last SCAL record fetched
                \*   from     where that record is: "own", in the container the pass
                \*            is in; "earlier", in one before it; "default", no
                \*            SCAL record was fetched
                \*   tsmp     the data of the last TSMP record fetched
                \*   samples  GPS5 samples whose iteration of the inner loop ended
                \*   gpri     GPRI records fetched

bvars == <<st, d, sub, n, pc, seen>>
mvars == <<files, fourcc_type, num, data, mpc, raised, written, csv>>
vars == <<skip, st, d, sub, n, pc, ret, stdout, files, fourcc_type, num, data, mpc,
          raised, written, csv, seen>>

InitBuilder ==
    /\ st = InitState
    /\ d = Record("", <<>>)
    /\ sub = 0
    /\ n = 0
    /\ pc = "loop"
    /\ ret = <<>>
    /\ stdout = <<>>
    /\ seen = [scal |-> InitState.SCAL, from |-> "default", tsmp |-> None, samples |-> 0,
               gpri |-> 0]

InitMain ==
    /\ num = 0
    /\ data = <<>>
    /\ mpc = "files"
    /\ raised = "none"
    /\ written = {}
    /\ csv = <<>>

\* BuildGPSPoints called on its own
Init ==
    /\ skip \in BOOLEAN
    /\ InitBuilder
    /\ InitMain
    /\ files = <<>>
    /\ fourcc_type = "None"

\* the loop fetches rec and runs the branch of its tag, leaving the locals new
Fetch(rec, new) ==
    /\ pc = "loop"
    /\ n < MaxRecords
    /\ n' = n + 1
    /\ d' = rec
    /\ st' = new
    /\ pc' = IF new.err # "none" THEN "error" ELSE "loop"
    /\ seen' = CASE rec.fourCC = "SCAL" -> [seen EXCEPT !.scal = rec.data, !.from = "own"]
                 [] rec.fourCC = "TSMP" -> [seen EXCEPT !.tsmp = rec.data]
                 [] rec.fourCC = "GPRI" -> [seen EXCEPT !.gpri = @ + 1]
                 [] OTHER -> seen
    /\ UNCHANGED <<skip, sub, ret, stdout, mvars>>

LoopSCAL ==
    \E v \in ScaleVectors \cup ScaleFactors :
        Fetch(Record("SCAL", v), OnSCAL(st, Record("SCAL", v)))

LoopDVNM == \E v \in DeviceNames : Fetch(Record("DVNM", v), OnDVNM(st, Record("DVNM", v)))

LoopGPSU == \E v \in Anchors : Fetch(Record("GPSU", v), OnGPSU(st, Record("GPSU", v)))

LoopGPSF == \E v \in FixCodes : Fetch(Record("GPSF", v), OnGPSF(st, Record("GPSF", v)))

LoopTSMP == \E v \in TSMPValues : Fetch(Record("TSMP", v), OnTSMP(st, Record("TSMP", v)))

LoopSYST == \E v \in SYSTValues : Fetch(Record("SYST", v), OnSYST(st, Record("SYST", v)))

LoopGPRI ==
    \E v \in GPRIValues : Fetch(Record("GPRI", v), OnGPRI(st, Record("GPRI", v), skip))

LoopOther == \E t \in OtherTags : Fetch(Record(t, <<>>), st)

\* the loop fetches a GPS5 record and enters its inner loop
LoopGPS5 ==
    \E v \in GPS5Data :
        /\ pc = "loop"
        /\ n < MaxRecords
        /\ n' = n + 1
        /\ d' = Record("GPS5", v)
        /\ st' = EnterGPS5(st)
        /\ sub' = 1
        /\ pc' = IF Len(v) = 0 THEN "loop" ELSE "gps5"
        /\ UNCHANGED <<skip, ret, stdout, mvars, seen>>

\* one iteration of the inner loop, on sample d.data[sub]
GPS5Sample ==
    /\ pc = "gps5"
    /\ st' = GPS5Item(st, d.data[sub], skip)
    /\ sub' = sub + 1
    /\ pc' = IF st'.err # "none" THEN "error"
             ELSE IF sub = Len(d.data) THEN "loop" ELSE "gps5"
    /\ seen' = IF st'.err # "none" THEN seen ELSE [seen EXCEPT !.samples = @ + 1]
    /\ UNCHANGED <<skip, d, n, ret, stdout, mvars>>

\* the sequence is exhausted: print the stats and return
Return ==
    /\ pc = "loop"
    /\ pc' = "returned"
    /\ stdout' = PrintStats(st)
    /\ ret' = ReturnValue(st)
    /\ UNCHANGED <<skip, st, d, sub, n, mvars, seen>>

\* The records the loop fetches next come from the next container (DEVC or
\* STRM) of the payload: the flattened sequence does not show it, and no
\* variable of the program changes.
NewContainer ==
    /\ pc = "loop"
    /\ seen.from = "own"
    /\ seen' = [seen EXCEPT !.from = "earlier"]
    /\ UNCHANGED <<skip, st, d, sub, n, pc, ret, stdout, mvars>>

Next ==
    \/ LoopSCAL \/ LoopDVNM \/ LoopGPSU \/ LoopGPSF \/ LoopTSMP
    \/ LoopGPS5 \/ GPS5Sample \/ LoopSYST \/ LoopGPRI \/ LoopOther
    \/ NewContainer \/ Return

Spec == Init /\ [][Next]_vars

\* ---------------------------------------------------------------- main_core
MainInit ==
    /\ skip \in BOOLEAN
    /\ InitBuilder
    /\ InitMain
    /\ files \in UNION { [1..k -> FileChoices] : k \in 0..MaxFiles }
    /\ fourcc_type \in FourCCTypes

\* one iteration of the file loop: data += gpmf.parseStream(raw_data, ...)
ParseFilePrepend ==
    /\ mpc = "files"
    /\ num < Len(files)
    /\ files[num + 1] # Corrupt
    /\ data' = Captures[files[num + 1]] \o data
    /\ num' = num + 1
    /\ UNCHANGED <<skip, bvars, ret, stdout, files, fourcc_type, mpc, raised, written, csv>>

ParseFile ==
    /\ mpc = "files"
    /\ num < Len(files)
    /\ files[num + 1] # Corrupt
    /\ data' = data \o Captures[files[num + 1]]
    /\ num' = num + 1
    /\ UNCHANGED <<skip, bvars, ret, stdout, files, fourcc_type, mpc, raised, written, csv>>

\* gpmf.parseStream raises: nothing in main_core catches it
ParseRaises ==
    /\ mpc = "files"
    /\ num < Len(files)
    /\ files[num + 1] = Corrupt
    /\ mpc' = "raised"
    /\ raised' = "MalformedPayload"
    /\ UNCHANGED <<skip, bvars, ret, stdout, files, fourcc_type, num, data, written, csv>>

\* fourcc_type is GRAV, CORI or ACCL: Get*Data(data), then write_csv
ExtractCSV ==
    /\ mpc = "files"
    /\ num = Len(files)
    /\ fourcc_type \in {"GRAV", "CORI", "ACCL"}
    /\ LET r == GetData(data, fourcc_type, 1, Scalar(1), <<>>) IN
         IF r.err # "none"
         THEN /\ mpc' = "raised"
              /\ raised' = r.err
              /\ UNCHANGED <<written, csv>>
         ELSE /\ mpc' = "done"
              /\ csv' = r.rows
              /\ written' = written \cup {"csv"}
              /\ UNCHANGED raised
    /\ UNCHANGED <<skip, bvars, ret, stdout, files, fourcc_type, num, data>>

\* points, start_time, device_name = BuildGPSPoints(data, skip=args.skip)
CallBuildGPSPoints ==
    /\ mpc = "files"
    /\ num = Len(files)
    /\ fourcc_type \notin {"GRAV", "CORI", "ACCL"}
    /\ LET s == BuildGPSPoints(data, skip) IN
         IF s.err # "none"
         THEN /\ mpc' = "raised"
              /\ raised' = s.err
              /\ UNCHANGED <<ret, stdout>>
         ELSE /\ mpc' = "built"
              /\ ret' = ReturnValue(s)
              /\ stdout' = PrintStats(s)
              /\ UNCHANGED raised
    /\ UNCHANGED <<skip, bvars, files, fourcc_type, num, data, written, csv>>

\* len(points) == 0: "Can't create file", sys.exit(0)
ExitNoPoints ==
    /\ mpc = "built"
    /\ Len(ret.points) = 0
    /\ mpc' = "exit0"
    /\ UNCHANGED <<skip, bvars, ret, stdout, files, fourcc_type, num, data, raised, written, csv>>

\* generate_KML, write .kml, generate_GPX, write .gpx
WriteOutputsUnchecked ==
    /\ mpc = "built"
    /\ written' = written \cup {"kml", "gpx"}
    /\ mpc' = "done"
    /\ UNCHANGED <<skip, bvars, ret, stdout, files, fourcc_type, num, data, raised, csv>>

WriteOutputs ==
    /\ mpc = "built"
    /\ Len(ret.points) # 0
    /\ written' = written \cup {"kml", "gpx"}
    /\ mpc' = "done"
    /\ UNCHANGED <<skip, bvars, ret, stdout, files, fourcc_type, num, data, raised, csv>>

MainNext ==
    \/ ParseFile \/ ParseRaises \/ ExtractCSV \/ CallBuildGPSPoints
    \/ ExitNoPoints \/ WriteOutputs

SpecMain == MainInit /\ [][MainNext]_vars

\* ================================================================= claims
\* ------------------------------------------------ helpers of the formulas
\* the sample the inner loop is about to process (when pc = "gps5")
item == d.data[sub]

AllZero(v) == Lat(v) = 0 /\ Lon(v) = 0 /\ Alt(v) = 0

\* q is the rational raw / divisor
IsQuotient(q, raw, divisor) == q[1] * divisor = raw * q[2]

\* the scale vector has a non-zero component for every field of v
ScaleFits(SCAL, v) ==
    ~IsScalar(SCAL) /\ Len(SCAL) >= Len(v) /\ \A i \in 1..Len(v) : SCAL[i] # 0

\* this step appended exactly one point and changed no earlier one
AppendedOne ==
    /\ Len(st'.points) = Len(st.points) + 1
    /\ SubSeq(st'.points, 1, Len(st.points)) = st.points

LastPoint(s) == s.points[Len(s.points)]

\* this step ran the GPRI branch on record d'
GPRIStep == pc = "loop" /\ n' = n + 1 /\ d'.fourCC = "GPRI"

ScaleErrors == {"TypeError_make", "TypeError_list", "ZeroDivisionError", "IndexError"}

\* C1 (as claimed): every point a GPS5 record emits under the anchor GPSU is
\* stamped GPSU + i/18 s (to the microsecond), i the 0-based position of its
\* sample in the record, counting the samples that were not emitted too.
C1_StampByPosition ==
    [][ (pc = "gps5" /\ Len(st'.points) = Len(st.points) + 1)
        => LET e == SampleRate * (LastPoint(st').time - st.GPSU)
                    - (sub - 1) * MicrosPerSecond
           IN  AppendedOne /\ e <= SampleRate \div 2 /\ -e <= SampleRate \div 2 ]_vars

\* C2 (as claimed): a GPS5 sample that is not all-zero, processed at fix
\* quality 0 (under a scale vector that covers its fields): skip disabled, it
\* is emitted and badfix grows by one, badfixskip unchanged; skip enabled, no
\* point is emitted and badfix and badfixskip both grow by one.
C2_BadFixPolicy ==
    [][ (pc = "gps5" /\ ~AllZero(item) /\ st.GPSFIX = 0 /\ ScaleFits(st.SCAL, item))
        => IF skip
           THEN /\ st'.points = st.points
                /\ st'.stats = [st.stats EXCEPT !.badfix = @ + 1, !.badfixskip = @ + 1]
           ELSE /\ AppendedOne
                /\ st'.stats.badfix = st.stats.badfix + 1
                /\ st'.stats.badfixskip = st.stats.badfixskip ]_vars

\* C3: a GPS5 sample whose lat, lon and alt are all zero is never emitted and
\* adds exactly one to empty, whatever the fix quality and the skip policy;
\* no other counter changes and the pass goes on.
C3_EmptyRejected ==
    [][ (pc = "gps5" /\ AllZero(item))
        => /\ st'.points = st.points
           /\ st'.stats = [st.stats EXCEPT !.empty = @ + 1]
           /\ pc' # "error" ]_vars

\* an all-zero sample was counted at fix quality 0 with skip enabled
C3_Witness ==
    /\ skip
    /\ st.GPSFIX = 0
    /\ d.fourCC = "GPS5"
    /\ pc = "loop"
    /\ st.stats = [ok |-> 0, badfix |-> 0, badfixskip |-> 0, empty |-> 1]

\* C4 (as claimed): after a SCAL record (lat, lon and alt components
\* non-zero), a non-empty GPS5 sample processed with an anchor and a fix
\* quality other than 0 emits one point whose lat, lon, alt are the raw values
\* divided by the SCAL components; so for the three-component (10, 10, 10).
C4_ScaledBySCAL ==
    [][ (/\ pc = "gps5" /\ ~AllZero(item) /\ st.GPSFIX # 0 /\ st.GPSU # None
         /\ st.SCAL \in ScaleVectors /\ Len(st.SCAL) >= 3
         /\ \A i \in 1..3 : st.SCAL[i] # 0)
        => /\ AppendedOne
           /\ IsQuotient(LastPoint(st').lat, Lat(item), st.SCAL[1])
           /\ IsQuotient(LastPoint(st').lon, Lon(item), st.SCAL[2])
           /\ IsQuotient(LastPoint(st').alt, Alt(item), st.SCAL[3]) ]_vars

\* C4 (amended): the point is emitted, with lat, lon, alt and speed the raw
\* values divided by the SCAL components, when the SCAL record has a non-zero
\* component for each of the five fields of the sample; under a SCAL record
\* with fewer components, as (10, 10, 10), no point is emitted: the pass stops
\* with an error.
C4_ScaledByFullSCAL ==
    [][ (/\ pc = "gps5" /\ ~AllZero(item) /\ st.GPSFIX # 0 /\ st.GPSU # None
         /\ st.SCAL \in ScaleVectors)
        => /\ ScaleFits(st.SCAL, item)
              => /\ AppendedOne
                 /\ IsQuotient(LastPoint(st').lat, Lat(item), st.SCAL[1])
                 /\ IsQuotient(LastPoint(st').lon, Lon(item), st.SCAL[2])
                 /\ IsQuotient(LastPoint(st').alt, Alt(item), st.SCAL[3])
                 /\ IsQuotient(LastPoint(st').speed, Speed(item), st.SCAL[4])
           /\ Len(st.SCAL) < Len(item)
              => st'.points = st.points /\ pc' = "error" ]_vars

\* (100, 200, 300, 40, 50) was emitted under the SCAL record (2, 5, 10, 20, 1)
\* with a lock
C4_Witness ==
    /\ pc = "loop"
    /\ st.GPSFIX # 0
    /\ st.SCAL = <<2, 5, 10, 20, 1>>
    /\ d = Record("GPS5", <<FullItem>>)
    /\ Len(st.points) = 1
    /\ st.points[1].lat = <<50, 1>>
    /\ st.points[1].lon = <<40, 1>>
    /\ st.points[1].alt = <<30, 1>>

\* C5 (as claimed): the pass never stops before the end of the sequence; in
\* particular not on a GPS5 sample accepted before any GPSU, nor on a GPRI
\* record accepted after a non-zero SYST (the errors raised for a scale vector
\* that does not cover the record are left aside).
C5_NoEarlyStop == pc = "error" => st.err \in ScaleErrors

\* C10 (as claimed): a GPRI record that is not all-zero and passes the bad-fix
\* policy, processed with SYST seconds and milliseconds both non-zero (under a
\* scale vector that covers its fields), appends exactly one point with the
\* scale-corrected lat, lon, alt, speed and adds one to ok.
C10_GPRIEmits ==
    [][ (/\ GPRIStep /\ ~AllZero(d'.data) /\ ~(st.GPSFIX = 0 /\ skip)
         /\ ~IsZero(st.SYST[1]) /\ ~IsZero(st.SYST[2])
         /\ ScaleFits(st.SCAL, d'.data))
        => /\ AppendedOne
           /\ IsQuotient(LastPoint(st').lat, Lat(d'.data), st.SCAL[1])
           /\ IsQuotient(LastPoint(st').lon, Lon(d'.data), st.SCAL[2])
           /\ IsQuotient(LastPoint(st').alt, Alt(d'.data), st.SCAL[3])
           /\ IsQuotient(LastPoint(st').speed, Speed(d'.data), st.SCAL[4])
           /\ st'.stats.ok = st.stats.ok + 1 ]_vars

\* --------------------------------------------------- formulas of main_core
\* the records of the given files, in the order of args.files
RECURSIVE Concat(_, _)
Concat(fs, k) ==
    IF k > Len(fs) THEN <<>>
    ELSE (IF fs[k] = Corrupt THEN <<>> ELSE Captures[fs[k]]) \o Concat(fs, k + 1)

AllRecords == Concat(files, 1)

NoCorrupt == \A k \in 1..Len(files) : files[k] # Corrupt

TagAt(records, tag) == {i \in 1..Len(records) : records[i].fourCC = tag}

Lowest(S) == CHOOSE i \in S : \A j \in S : i <= j
Highest(S) == CHOOSE i \in S : \A j \in S : j <= i

\* the value of the first GPSU record of the sequence, None if it has none
FirstGPSU(records) ==
    IF TagAt(records, "GPSU") = {} THEN None
    ELSE records[Lowest(TagAt(records, "GPSU"))].data

\* the value of the last DVNM record of the sequence, the default if none
LastDVNM(records) ==
    IF TagAt(records, "DVNM") = {} THEN "Unknown"
    ELSE records[Highest(TagAt(records, "DVNM"))].data

\* the scale vector in force at position i: the last SCAL record before it
ScaleAt(records, i) ==
    LET before == {j \in TagAt(records, "SCAL") : j < i} IN
    IF before = {} THEN <<1, 1, 1>> ELSE records[Highest(before)].data

\* every SYST record is scaled by a vector with two non-zero leading components
SYSTCovered(records) ==
    \A i \in TagAt(records, "SYST") : ScaleFits(ScaleAt(records, i), records[i].data)

NoFix(records) == TagAt(records, "GPS5") = {} /\ TagAt(records, "GPRI") = {}

RECURSIVE Sum(_, _)
Sum(f, k) == IF k = 0 THEN 0 ELSE f[k] + Sum(f, k - 1)

\* the all-zero fixes of the sequence: GPS5 samples and GPRI records
EmptyFixes(records) ==
    Sum([i \in 1..Len(records) |->
           IF records[i].fourCC = "GPS5"
           THEN Cardinality({k \in 1..Len(records[i].data) : AllZero(records[i].data[k])})
           ELSE IF records[i].fourCC = "GPRI" /\ AllZero(records[i].data) THEN 1 ELSE 0],
        Len(records))

GPSMode == fourcc_type \notin {"GRAV", "CORI", "ACCL"}

C7_StartTimeIsFirstGPSU ==
    (GPSMode /\ mpc \in {"built", "exit0", "done"})
    => /\ data = AllRecords
       /\ ret.start_time = FirstGPSU(AllRecords)

\* two files whose first GPSU values differ: the start time is the first file's
C7_Witness ==
    /\ GPSMode
    /\ mpc = "done"
    /\ Len(files) = 2
    /\ NoCorrupt
    /\ FirstGPSU(Captures[files[1]]) # None
    /\ FirstGPSU(Captures[files[2]]) # None
    /\ FirstGPSU(Captures[files[2]]) # FirstGPSU(Captures[files[1]])
    /\ ret.start_time = FirstGPSU(Captures[files[1]])
    /\ Cardinality(TagAt(data, "GPSU")) >= 3

\* C8 (as claimed): a file that fails to parse aborts that input only; the
\* run is not ended by it when earlier inputs were parsed and merged.
C8_ParseFailureIsLocal ==
    ~(mpc = "raised" /\ raised = "MalformedPayload" /\ num >= 1 /\ Len(data) > 0)

\* C9 (as claimed): the value BuildGPSPoints returns carries the final
\* statistics beside the points, the start time and the device name.
C9_StatsReturned ==
    (GPSMode /\ mpc \in {"built", "exit0", "done"}) => "stats" \in DOMAIN ret

\* C9 (amended): BuildGPSPoints returns the points, the start time (first
\* GPSU) and the device name (last DVNM, or the default) and nothing else; the
\* final statistics are printed before the return, also in a zero-point run:
\* ok is the number of points, empty the number of all-zero fixes.
C9_ReturnsThreePrintsStats ==
    (GPSMode /\ mpc \in {"built", "exit0", "done"})
    => /\ DOMAIN ret = {"points", "start_time", "device_name"}
       /\ ret.start_time = FirstGPSU(AllRecords)
       /\ ret.device_name = LastDVNM(AllRecords)
       /\ stdout.Device = ret.device_name
       /\ stdout.Ok = Len(ret.points)
       /\ stdout.Empty = EmptyFixes(AllRecords)
       /\ stdout.Skipped <= stdout.Bad
       /\ stdout.Total = stdout.Ok + stdout.Bad + stdout.Skipped + stdout.Empty

\* a zero-point run that printed non-zero counts, after two DVNM records
C9_Witness ==
    /\ GPSMode
    /\ mpc = "exit0"
    /\ stdout.Skipped > 0
    /\ Cardinality(TagAt(data, "DVNM")) >= 2
    /\ ret.device_name = "Karma"

\* ------------------------------------------------ the single-channel modes
ExtractMode == fourcc_type \in {"GRAV", "CORI", "ACCL"}

\* the data of the last SCAL record before position i, the number 1 if none
FactorAt(records, i) ==
    LET before == {j \in TagAt(records, "SCAL") : j < i} IN
    IF before = {} THEN Scalar(1) ELSE records[Highest(before)].data

\* the decoded tuples of the records of the tag from position i on, in record
\* order, each with the position of its record
RECURSIVE TuplesOf(_, _, _)
TuplesOf(records, tag, i) ==
    IF i > Len(records) THEN <<>>
    ELSE (IF records[i].fourCC = tag
          THEN [k \in 1..Len(records[i].data) |-> [values |-> records[i].data[k], at |-> i]]
          ELSE <<>>) \o TuplesOf(records, tag, i + 1)

\* the rows are the tuples, each value divided by the number in force
RowsAreScaledTuples(rows, records, tag) ==
    LET tuples == TuplesOf(records, tag, 1) IN
    /\ Len(rows) = Len(tuples)
    /\ \A k \in 1..Len(tuples) :
          LET SCAL == FactorAt(records, tuples[k].at) IN
          /\ IsScalar(SCAL)
          /\ Len(rows[k]) = Len(tuples[k].values)
          /\ \A j \in 1..Len(rows[k]) : IsQuotient(rows[k][j], tuples[k].values[j], SCAL[0])

\* every tuple of the tag is under a SCAL record of one non-zero number, or none
FactorsUsable(records, tag) ==
    \A i \in TagAt(records, tag) :
        Len(records[i].data) > 0
        => IsScalar(FactorAt(records, i)) /\ FactorAt(records, i)[0] # 0

\* no row was extracted; a finished run wrote the KML and GPX of its points
GPSSelected ==
    /\ csv = <<>>
    /\ "csv" \notin written
    /\ mpc = "done" => written = {"kml", "gpx"} /\ Len(ret.points) > 0

\* C11 (as claimed): with type GRAV, CORI or ACCL main_core never runs
\* BuildGPSPoints and the rows written are, in record order, one per decoded
\* tuple of every record of the requested tag, each value divided by the data
\* of the most recent SCAL record before it (1.0 if none), no row dropped; any
\* other type selects the GPS reconstruction.
C11_RowsByLastSCAL ==
    /\ (ExtractMode /\ NoCorrupt)
       => /\ ret = <<>> /\ stdout = <<>>
          /\ mpc \in {"files", "done"}
          /\ mpc = "done" => RowsAreScaledTuples(csv, AllRecords, fourcc_type)
    /\ GPSMode => GPSSelected

\* C11 (amended): so it is when the most recent SCAL record before every tuple
\* of the tag holds a single non-zero number; when it holds a tuple of several
\* values (or zero) the division raises: the run ends with that error and
\* writes nothing.
C11_RowsByLastScalarSCAL ==
    /\ ExtractMode
       => /\ ret = <<>> /\ stdout = <<>>
          /\ written \subseteq {"csv"}
          /\ (NoCorrupt /\ mpc # "files")
             => IF FactorsUsable(AllRecords, fourcc_type)
                THEN /\ mpc = "done" /\ written = {"csv"}
                     /\ RowsAreScaledTuples(csv, AllRecords, fourcc_type)
                ELSE /\ mpc = "raised" /\ written = {} /\ csv = <<>>
                     /\ raised \in {"TypeError_float", "ZeroDivisionError"}
    /\ GPSMode => GPSSelected

\* three ACCL rows were written from two files: one unscaled, two divided by 2
C11_Witness ==
    /\ fourcc_type = "ACCL"
    /\ mpc = "done"
    /\ written = {"csv"}
    /\ Len(files) = 2
    /\ csv = << <<<<1, 1>>, <<2, 1>>, <<3, 1>>>>, <<<<1, 1>>, <<2, 1>>, <<3, 1>>>>,
               <<<<1, 2>>, <<0, 1>>, <<3, 2>>>> >>

\* ------------------------------------------------------ the builder's state
\* this step ran the SYST branch on record d'
SYSTStep == pc = "loop" /\ n' = n + 1 /\ d'.fourCC = "SYST"

\* the scale vector is a tuple with fewer components than v has fields
ShorterThan(SCAL, v) == ~IsScalar(SCAL) /\ Len(SCAL) < Len(v)

\* C12 (as claimed): a GPS5 sample, a SYST record or a GPRI record that is
\* scaled by a vector with fewer components than it has fields ends the pass
\* with an error; no point and no SYST state is built from the shortened list.
C12_MismatchIsError ==
    [][ /\ (pc = "gps5" /\ ~AllZero(item) /\ ~(st.GPSFIX = 0 /\ skip)
            /\ ShorterThan(st.SCAL, item))
           => pc' = "error" /\ st'.points = st.points
        /\ (GPRIStep /\ ~AllZero(d'.data) /\ ~(st.GPSFIX = 0 /\ skip)
            /\ ShorterThan(st.SCAL, d'.data))
           => pc' = "error" /\ st'.points = st.points
        /\ (SYSTStep /\ ShorterThan(st.SCAL, d'.data))
           => pc' = "error" /\ st'.SYST = st.SYST ]_vars

\* this step built a point or a SYST state from scaled fields
BuiltStep ==
    \/ pc = "gps5" /\ Len(st'.points) = Len(st.points) + 1
    \/ SYSTStep /\ st'.SYST # st.SYST

\* C13 (as claimed): a record is divided only by the SCAL of its own
\* container: nothing is built from fields divided by the data of a SCAL
\* record of an earlier container.
C13_ScaleOfOwnContainer == [][ BuiltStep => seen.from # "earlier" ]_vars

\* C13 (amended): a record is divided by the data of the most recent SCAL
\* record before it in the flattened sequence (the default vector if none),
\* whichever container that record came from: the points and the SYST state
\* built are the raw fields over its components.
C13_ScaleOfLastSCAL ==
    [][ /\ st.SCAL = seen.scal
        /\ (pc = "gps5" /\ Len(st'.points) = Len(st.points) + 1)
           => /\ IsQuotient(LastPoint(st').lat, Lat(item), seen.scal[1])
              /\ IsQuotient(LastPoint(st').lon, Lon(item), seen.scal[2])
              /\ IsQuotient(LastPoint(st').alt, Alt(item), seen.scal[3])
              /\ IsQuotient(LastPoint(st').speed, Speed(item), seen.scal[4])
        /\ (SYSTStep /\ st'.SYST # st.SYST)
           => /\ IsQuotient(st'.SYST[1], d'.data[1], seen.scal[1])
              /\ IsQuotient(st'.SYST[2], d'.data[2], seen.scal[2]) ]_vars

\* the first sample of a GPS5 record was emitted under the SCAL record of an
\* earlier container
C13_Witness ==
    /\ seen.from = "earlier"
    /\ d.fourCC = "GPS5"
    /\ pc = "gps5"
    /\ sub = 2
    /\ st.sample_count = 1
    /\ Len(st.points) = 1
    /\ IsQuotient(st.points[1].lat, Lat(d.data[1]), seen.scal[1])

\* this step ran the TSMP branch on record d'
TSMPStep == pc = "loop" /\ n' = n + 1 /\ d'.fourCC = "TSMP"

\* C14 (as claimed): the TSMP state after a TSMP record is its raw value when
\* it is the first TSMP record of the pass, and its raw value minus the raw
\* value of the TSMP record before it otherwise, zero values included.
C14_TSMPIsRawDelta ==
    [][ TSMPStep
        => st'.TSMP = IF seen.tsmp = None THEN d'.data ELSE d'.data - seen.tsmp ]_vars

\* C15: a SYST record replaces the SYST state with its two fields divided by
\* the scale vector when both quotients exist and are non-zero, and leaves it
\* as it was otherwise; so the SYST state is always the initial (0, 0) or a
\* pair of non-zero values.
C15_SYSTBothNonZero ==
    [][ /\ SYSTStep
           => IF ScaleFits(st.SCAL, d'.data) /\ d'.data[1] # 0 /\ d'.data[2] # 0
              THEN /\ Len(st'.SYST) = 2
                   /\ IsQuotient(st'.SYST[1], d'.data[1], st.SCAL[1])
                   /\ IsQuotient(st'.SYST[2], d'.data[2], st.SCAL[2])
              ELSE st'.SYST = st.SYST
        /\ \/ st'.SYST = InitState.SYST
           \/ ~IsZero(st'.SYST[1]) /\ ~IsZero(st'.SYST[2]) ]_vars

\* a SYST record with a zero field was processed after a SYST record with
\* none: the state is still the scaled pair of the first
C15_Witness ==
    /\ pc = "loop"
    /\ d = Record("SYST", <<0, 9>>)
    /\ st.SCAL = <<10, 10, 10>>
    /\ st.SYST = << <<7, 10>>, <<9, 10>> >>

SYSTUnset(s) == IsZero(s.SYST[1]) \/ IsZero(s.SYST[2])

\* C16 (as claimed): a GPRI record processed while the SYST state has zero
\* seconds or zero milliseconds emits no point: points and ok are unchanged
\* and the record is not counted as empty; processed at fix quality 0 with
\* skip disabled it has still added one to badfix.
C16_DroppedUncounted ==
    [][ (GPRIStep /\ SYSTUnset(st))
        => /\ st'.points = st.points
           /\ st'.stats.ok = st.stats.ok
           /\ st'.stats.empty = st.stats.empty
           /\ (st.GPSFIX = 0 /\ ~skip) => st'.stats.badfix = st.stats.badfix + 1 ]_vars

\* C16 (amended): so it is for a GPRI record that is not all-zero; an all-zero
\* GPRI record emits no point either but is counted as empty, and adds to no
\* other counter.
C16_DroppedUncountedUnlessEmpty ==
    [][ (GPRIStep /\ SYSTUnset(st))
        => /\ st'.points = st.points
           /\ st'.stats.ok = st.stats.ok
           /\ IF AllZero(d'.data)
              THEN st'.stats = [st.stats EXCEPT !.empty = @ + 1]
              ELSE /\ st'.stats.empty = st.stats.empty
                   /\ st'.stats.badfix = st.stats.badfix + (IF st.GPSFIX = 0 THEN 1 ELSE 0)
                   /\ st'.stats.badfixskip =
                        st.stats.badfixskip + (IF st.GPSFIX = 0 /\ skip THEN 1 ELSE 0) ]_vars

\* a GPRI record that is not all-zero went through the bad-fix count with
\* skip disabled and was dropped for want of a SYST state
C16_Witness ==
    /\ ~skip
    /\ pc = "loop"
    /\ d = Record("GPRI", FullItem)
    /\ ScaleFits(st.SCAL, d.data)
    /\ st.GPSFIX = 0
    /\ SYSTUnset(st)
    /\ st.points = <<>>
    /\ st.stats = [ok |-> 0, badfix |-> 1, badfixskip |-> 0, empty |-> 0]

\* this step fetched record d' in the outer loop
FetchStep == pc = "loop" /\ n' = n + 1

HandledTags == {"SCAL", "DVNM", "GPSU", "GPSF", "TSMP", "GPS5", "SYST", "GPRI"}

\* C17: a record of a tag without a branch changes no local of the pass, and
\* each local is changed only by a record of its own tag: the scale vector by
\* SCAL, the fix quality by GPSF, the anchor and the start time by GPSU, the
\* device name by DVNM, the TSMP state by TSMP, the SYST state by SYST, the
\* points and the counters by the samples of GPS5 and by GPRI.
C17_OwnTagOnly ==
    [][ /\ (FetchStep /\ d'.fourCC \notin HandledTags) => st' = st
        /\ st'.SCAL # st.SCAL => FetchStep /\ d'.fourCC = "SCAL"
        /\ st'.GPSFIX # st.GPSFIX => FetchStep /\ d'.fourCC = "GPSF"
        /\ st'.GPSU # st.GPSU => FetchStep /\ d'.fourCC = "GPSU"
        /\ st'.start_time # st.start_time => FetchStep /\ d'.fourCC = "GPSU"
        /\ st'.DVNM # st.DVNM => FetchStep /\ d'.fourCC = "DVNM"
        /\ st'.TSMP # st.TSMP => FetchStep /\ d'.fourCC = "TSMP"
        /\ st'.SYST # st.SYST => FetchStep /\ d'.fourCC = "SYST"
        /\ (st'.points # st.points \/ st'.stats # st.stats)
           => pc = "gps5" \/ (FetchStep /\ d'.fourCC = "GPRI") ]_vars

\* an ACCL record was fetched last, after the scale vector, the fix quality,
\* the anchor and the device name had been set: they are as they were set
C17_Witness ==
    /\ pc = "loop"
    /\ n = 4
    /\ d.fourCC = "ACCL"
    /\ st.SCAL = <<2, 5, 10, 20, 1>>
    /\ st.GPSFIX = 3
    /\ st.GPSU = 60000000
    /\ st.DVNM = "Unknown"

\* C18: with skip enabled a point is appended only while the fix quality is
\* not 0, so the list returned holds no sample processed at fix quality 0 (none
\* from before the first GPSF record); with skip disabled badfixskip stays 0;
\* in both modes badfixskip never exceeds badfix.
C18_SkipKeepsBadFixesOut ==
    [][ /\ (skip /\ st'.points # st.points) => st.GPSFIX # 0 /\ st'.GPSFIX # 0
        /\ ~skip => st'.stats.badfixskip = 0
        /\ st'.stats.badfixskip <= st'.stats.badfix
        /\ pc' = "returned" => ret'.points = st.points ]_vars

\* with skip enabled a sample that is not all-zero, under an anchor and a
\* scale vector that covers it, was processed before any GPSF record: it was
\* counted in badfix and badfixskip and not emitted
C18_Witness ==
    /\ skip
    /\ pc = "loop"
    /\ d = Record("GPS5", <<FullItem>>)
    /\ st.GPSFIX = 0
    /\ st.GPSU # None
    /\ ScaleFits(st.SCAL, FullItem)
    /\ st.points = <<>>
    /\ st.stats = [ok |-> 0, badfix |-> 1, badfixskip |-> 1, empty |-> 0]

Accounted(s) == s.stats.ok + s.stats.empty + s.stats.badfixskip

\* C19: ok is the number of points; points only grow, by one point appended
\* at the end; every GPS5 sample whose iteration of the inner loop ends adds
\* one to exactly one of ok, empty and badfixskip, so that in a pass without
\* GPRI records ok + empty + badfixskip is the number of GPS5 samples
\* processed (a GPRI record adds at most one to the sum).
C19_CountersPartitionSamples ==
    [][ /\ st'.stats.ok = Len(st'.points)
        /\ \/ st'.points = st.points
           \/ AppendedOne
        /\ (pc = "gps5" /\ pc' # "error")
           => \/ st'.stats = [st.stats EXCEPT !.empty = @ + 1]
              \/ st'.stats = [st.stats EXCEPT !.badfix = @ + 1, !.badfixskip = @ + 1]
              \/ /\ st'.stats.ok = st.stats.ok + 1
                 /\ st'.stats.empty = st.stats.empty
                 /\ st'.stats.badfixskip = st.stats.badfixskip
        /\ seen'.gpri = 0 => Accounted(st') = seen'.samples
        /\ Accounted(st') >= seen'.samples
        /\ Accounted(st') <= seen'.samples + seen'.gpri ]_vars

\* the three samples of one GPS5 record were processed: two emitted, the
\* all-zero one counted as empty
C19_Witness ==
    /\ pc = "loop"
    /\ d = Record("GPS5", <<FullItem, EmptyItem, PartItem>>)
    /\ seen.gpri = 0
    /\ seen.samples = 3
    /\ Len(st.points) = 2
    /\ st.stats.ok = 2
    /\ st.stats.empty = 1
    /\ st.stats.badfixskip = 0

====
